---- MODULE Spec2Model ----
(***************************************************************************)
(* Button widget of retail-ui (src/components/Button/Button.tsx): the      *)
(* process-wide tab-focus detector (isListening, tabPressed, the keydown   *)
(* listener), the per-instance focus/blur handling with its deferred       *)
(* (process.nextTick) check, and the render composition.                   *)
(*                                                                         *)
(* Execution is single-threaded.  A browser event (keydown, pointer focus, *)
(* keyboard focus transition) is a turn of its own and starts only when    *)
(* the nextTick queue is empty: process.nextTick callbacks run after the   *)
(* current operation and before the event loop continues.  Calls made by   *)
(* application code (mounting, focus(), blur()) may follow one another in  *)
(* the same turn, so they may happen while deferred checks are pending.    *)
(***************************************************************************)
EXTENDS Integers, Sequences, FiniteSets, TLC

\* ------------------------------------------------------------- bounds
NumButtons == 2
MaxPending == 2
MaxCornerMask == 15

Buttons == 1..NumButtons

\* ---------------------------------------------------- program constants
KEYCODE_TAB == 9

\* Corners (./Corners): one bit per corner, in the order top-left,
\* top-right, bottom-right, bottom-left.
TOP_LEFT == 1
TOP_RIGHT == 2
BOTTOM_RIGHT == 4
BOTTOM_LEFT == 8

\* Key codes the environment may press: Tab and one other key (Enter).
KeyCodes == {KEYCODE_TAB, 13}

\* enum ButtonUse
ButtonUse == {"default", "primary", "success", "danger", "pay", "link"}

\* The keys of the `classes` object handed to the render callback.
ClassNames ==
  ButtonUse \cup
  {"root", "active", "checked", "disabled", "narrow", "noPadding",
   "noRightPadding", "buttonWithIcon", "sizeSmall", "sizeMedium",
   "DEPRECATED_sizeMedium", "sizeLarge", "focus", "borderless", "wrap",
   "wrap_arrow", "error", "warning", "loading", "icon", "arrow",
   "arrow_loading", "arrow_error", "arrow_warning", "caption"}

\* static defaultProps, and every optional prop absent (falsy).
defaultProps ==
  [use |-> "default", size |-> "small", type |-> "button",
   _noPadding |-> FALSE, _noRightPadding |-> FALSE, active |-> FALSE,
   align |-> "", arrow |-> FALSE, autoFocus |-> FALSE, borderless |-> FALSE,
   checked |-> FALSE, corners |-> <<>>, disabled |-> FALSE,
   disableFocus |-> FALSE, error |-> FALSE, icon |-> "", loading |-> FALSE,
   narrow |-> FALSE, visuallyFocused |-> FALSE, warning |-> FALSE]

VARIABLES
  isListening,    \* module-level `let isListening` (undefined is falsy)
  tabPressed,     \* module-level `let tabPressed`  (undefined is falsy)
  listeners,      \* number of keydown listeners attached to window
  sizeMedium16px, \* Upgrades.isSizeMedium16pxEnabled()
  props,          \* this.props of each instance
  node,           \* this._node # null
  focusedByTab,   \* this.state.focusedByTab
  activeElement,  \* the button holding input focus; 0: none of them
  pending,        \* the process.nextTick queue of deferred checks
  rendered,       \* what the last render() of each instance returned
  last,           \* history: the operation that made the last step
  setInTurn,      \* history: tabPressed was set to true in the current turn
  consumed        \* history: deferred checks that found tabPressed true
                  \*          since it was last set to true

vars == <<isListening, tabPressed, listeners, sizeMedium16px, props, node,
          focusedByTab, activeElement, pending, rendered, last, setInTurn,
          consumed>>

\* ===================================================== render composition

\* a & b on naturals.
RECURSIVE BitAnd(_, _)
BitAnd(a, b) ==
  IF a = 0 \/ b = 0 THEN 0
  ELSE (IF a % 2 = 1 /\ b % 2 = 1 THEN 1 ELSE 0) + 2 * BitAnd(a \div 2, b \div 2)

\* const { corners = 0 } = this.props
cornersOf(p) == IF p.corners = <<>> THEN 0 ELSE p.corners[1]

radius == "2px"

\* `${corners & Corners.X ? 0 : radius}`
cornerRadius(corners, bit) == IF BitAnd(corners, bit) # 0 THEN "0" ELSE radius

\* style.borderRadius: its four space-separated components, in order.
borderRadiusWrongOrder(p) ==
  <<cornerRadius(cornersOf(p), TOP_LEFT), cornerRadius(cornersOf(p), TOP_RIGHT),
    cornerRadius(cornersOf(p), BOTTOM_LEFT), cornerRadius(cornersOf(p), BOTTOM_RIGHT)>>

borderRadius(p) ==
  <<cornerRadius(cornersOf(p), TOP_LEFT), cornerRadius(cornersOf(p), TOP_RIGHT),
    cornerRadius(cornersOf(p), BOTTOM_RIGHT), cornerRadius(cornersOf(p), BOTTOM_LEFT)>>

\* SIZE_CLASSES[this.props.size]
SIZE_CLASSES(size, medium16px) ==
  CASE size = "small" -> "sizeSmall"
    [] size = "medium" -> IF medium16px THEN "sizeMedium" ELSE "DEPRECATED_sizeMedium"
    [] size = "large" -> "sizeLarge"
    [] OTHER -> "undefined"

\* classes[this.props.use] || classes.default
variantClass(use) == IF use \in ClassNames THEN use ELSE "default"

\* An object literal with computed keys: a later duplicate key overwrites the
\* value and keeps the key's first position.
ObjSet(o, key, val) ==
  IF \E j \in 1..Len(o) : o[j].key = key
  THEN [j \in 1..Len(o) |-> IF o[j].key = key THEN [key |-> key, val |-> val] ELSE o[j]]
  ELSE Append(o, [key |-> key, val |-> val])

RECURSIVE ObjLit(_)
ObjLit(pairs) ==
  IF pairs = <<>> THEN <<>>
  ELSE ObjSet(ObjLit(SubSeq(pairs, 1, Len(pairs) - 1)),
              pairs[Len(pairs)][1], pairs[Len(pairs)][2])

\* classNames(obj): the keys whose value is truthy, in key order.
IsTruthy(e) == e.val
classNames(pairs) ==
  LET kept == SelectSeq(ObjLit(pairs), IsTruthy)
  IN  [j \in 1..Len(kept) |-> kept[j].key]

\* rootProps.className of every variant but link.
rootClassName(p, fbt, medium16px) ==
  classNames(<<
    <<"root", TRUE>>,
    <<variantClass(p.use), TRUE>>,
    <<"active", p.active>>,
    <<"checked", p.checked>>,
    <<"disabled", p.disabled \/ p.loading>>,
    <<"narrow", p.narrow>>,
    <<"noPadding", p._noPadding>>,
    <<"noRightPadding", p._noRightPadding>>,
    <<"buttonWithIcon", p.icon # "">>,
    <<SIZE_CLASSES(p.size, medium16px), TRUE>>,
    <<"focus", fbt \/ p.visuallyFocused>>,
    <<"borderless", p.borderless>> >>)

\* rootProps.className as overwritten when use === 'link'.
linkClassNameWithLoading(p, fbt, medium16px) ==
  classNames(<<
    <<"root", TRUE>>,
    <<"link", TRUE>>,
    <<"disabled", p.disabled \/ p.loading>>,
    <<"buttonWithIcon", p.icon # "">>,
    <<SIZE_CLASSES(p.size, medium16px), TRUE>>,
    <<"focus", fbt \/ p.visuallyFocused>> >>)

linkClassName(p, fbt, medium16px) ==
  classNames(<<
    <<"root", TRUE>>,
    <<"link", TRUE>>,
    <<"disabled", p.disabled>>,
    <<"buttonWithIcon", p.icon # "">>,
    <<SIZE_CLASSES(p.size, medium16px), TRUE>>,
    <<"focus", fbt \/ p.visuallyFocused>> >>)

\* rootProps.disabled
disabledAttr(p) == p.disabled \/ p.loading

\* `error`: the marker rendered last in the button, or none.
errorMarkerWarningFirst(p) ==
  IF p.use = "link" THEN <<>>
  ELSE IF p.warning THEN <<"warning">>
  ELSE IF p.error THEN <<"error">>
  ELSE <<>>

errorMarker(p) ==
  IF p.use = "link" THEN <<>>
  ELSE IF p.error THEN <<"error">>
  ELSE IF p.warning THEN <<"warning">>
  ELSE <<>>

\* `loading`: the loading indicator, or none.
loadingIndicator(p) ==
  IF p.use = "link" THEN <<>> ELSE IF p.loading THEN <<"loading">> ELSE <<>>

\* `arrow`: the arrow decoration with its class names, or none.
arrowDecoration(p) ==
  IF p.use = "link" THEN <<>>
  ELSE IF p.arrow
    THEN << classNames(<< <<"arrow", TRUE>>, <<"arrow_loading", p.loading>>,
                          <<"arrow_error", p.error>>,
                          <<"arrow_warning", p.warning>> >>) >>
    ELSE <<>>

\* `icon`: the icon span inside the caption, or none.
iconElement(p) == IF p.icon # "" THEN <<p.icon>> ELSE <<>>

\* wrapProps.className
wrapClassName(p) ==
  IF p.use = "link" THEN "wrap" ELSE IF p.arrow THEN "wrap_arrow" ELSE "wrap"

\* render(): the element tree of one instance.
render(p, fbt, medium16px) ==
  [wrapClassName |-> wrapClassName(p),
   type          |-> p.type,
   className     |-> IF p.use = "link" THEN linkClassName(p, fbt, medium16px)
                     ELSE rootClassName(p, fbt, medium16px),
   borderRadius  |-> borderRadius(p),
   textAlign     |-> IF p.use = "link" THEN "" ELSE p.align,
   disabled      |-> disabledAttr(p),
   tabIndex      |-> IF p.disableFocus THEN -1 ELSE 0,
   loading       |-> loadingIndicator(p),
   arrow         |-> arrowDecoration(p),
   icon          |-> iconElement(p),
   error         |-> errorMarker(p)]

NotRendered == [wrapClassName |-> "unmounted"]

\* ======================================================== the state record

State ==
  [isListening |-> isListening, tabPressed |-> tabPressed,
   listeners |-> listeners, sizeMedium16px |-> sizeMedium16px,
   props |-> props, node |-> node, focusedByTab |-> focusedByTab,
   activeElement |-> activeElement, pending |-> pending,
   rendered |-> rendered]

Becomes(s) ==
  /\ isListening' = s.isListening
  /\ tabPressed' = s.tabPressed
  /\ listeners' = s.listeners
  /\ sizeMedium16px' = s.sizeMedium16px
  /\ props' = s.props
  /\ node' = s.node
  /\ focusedByTab' = s.focusedByTab
  /\ activeElement' = s.activeElement
  /\ pending' = s.pending
  /\ rendered' = s.rendered

\* ================================================== tab-focus detector

\* The listener attached to window: tabPressed = event.keyCode === KEYCODE_TAB
keydownListener(s, keyCode) == [s EXCEPT !.tabPressed = (keyCode = KEYCODE_TAB)]

\* A keydown event reaches every attached listener.
dispatchKeydown(s, keyCode) ==
  IF s.listeners > 0 THEN keydownListener(s, keyCode) ELSE s

listenTabPressesUnguarded(s) ==
  [s EXCEPT !.listeners = @ + 1, !.isListening = TRUE]

listenTabPresses(s) ==
  IF ~s.isListening
  THEN [s EXCEPT !.listeners = @ + 1, !.isListening = TRUE]
  ELSE s

\* ======================================================= button instance

\* this.setState({ focusedByTab: v }) and the render it causes.
setState(s, i, v) ==
  [s EXCEPT !.focusedByTab[i] = v,
            !.rendered[i] = render(s.props[i], v, s.sizeMedium16px)]

handleBlurKeeps(s, i) == s

handleBlur(s, i) == setState(s, i, FALSE)

\* The callback given to process.nextTick.
deferredCheckKeepsFlag(s, i) ==
  IF s.tabPressed THEN setState(s, i, TRUE) ELSE s

deferredCheck(s, i) ==
  IF s.tabPressed
  THEN [setState(s, i, TRUE) EXCEPT !.tabPressed = FALSE]
  ELSE s

handleFocusSynchronous(s, i, cause) ==
  IF ~s.props[i].disabled /\ ~s.props[i].disableFocus
  THEN deferredCheck(s, i)
  ELSE s

\* A pending deferred check is the closure over `this`; `cause` records which
\* kind of focus event scheduled it (history only).
handleFocus(s, i, cause) ==
  IF ~s.props[i].disabled /\ ~s.props[i].disableFocus
  THEN [s EXCEPT !.pending = Append(@, [id |-> i, cause |-> cause])]
  ELSE s

\* The control that holds focus loses it: its blur event is handled.
domBlurActive(s) ==
  IF s.activeElement # 0
  THEN [handleBlur(s, s.activeElement) EXCEPT !.activeElement = 0]
  ELSE s

\* this._node.focus(): input focus moves to the control; the control that
\* held it gets its blur event first, then this one its focus event.
domFocus(s, i, cause) ==
  IF s.activeElement = i THEN s
  ELSE handleFocus([domBlurActive(s) EXCEPT !.activeElement = i], i, cause)

\* this._node.blur()
domBlur(s, i) == IF s.activeElement = i THEN domBlurActive(s) ELSE s

focus(s, i, cause) == IF s.node[i] THEN domFocus(s, i, cause) ELSE s

blur(s, i) == IF s.node[i] THEN domBlur(s, i) ELSE s

componentDidMount(s, i) ==
  LET s1 == listenTabPresses(s)
  IN  IF s1.props[i].autoFocus
      THEN focus([s1 EXCEPT !.tabPressed = TRUE], i, "mount")
      ELSE s1

\* Construction, first render, the ref callback, then componentDidMount.
mount(s, i, cfg) ==
  componentDidMount(
    [s EXCEPT !.props[i] = cfg,
              !.focusedByTab[i] = FALSE,
              !.rendered[i] = render(cfg, FALSE, s.sizeMedium16px),
              !.node[i] = TRUE], i)

\* ============================================================ actions

\* Configurations application code mounts a button with: every combination
\* of the options the focus handling reads.
FocusConfigs ==
  {[defaultProps EXCEPT !.autoFocus = a, !.disabled = d, !.disableFocus = f] :
     a \in BOOLEAN, d \in BOOLEAN, f \in BOOLEAN}

\* Configurations for the render composition: every combination of the
\* options that select the variant, the decorations, the disabled state, the
\* focusability and the size class.  "bogus" and "disabled" are values of
\* `use` outside the enum; the second is also a key of `classes`.
DecorationConfigs ==
  {[defaultProps EXCEPT !.use = u, !.disabled = d, !.loading = l, !.arrow = a,
                        !.error = e, !.warning = w, !.disableFocus = f,
                        !.size = z] :
     u \in {"default", "primary", "link", "bogus", "disabled"},
     d \in BOOLEAN, l \in BOOLEAN, a \in BOOLEAN, e \in BOOLEAN, w \in BOOLEAN,
     f \in BOOLEAN, z \in {"small", "medium"}}

\* Every corner mask, and the absent one, on a plain and on a link button.
CornerConfigs ==
  {[defaultProps EXCEPT !.use = u, !.corners = c] :
     u \in {"default", "link"},
     c \in {<<>>} \cup {<<m>> : m \in 0..MaxCornerMask}}

RenderConfigs == DecorationConfigs \cup CornerConfigs

\* History of a step from the current state to s1.
Record(op, id, cause, read, s1) ==
  LET lost == IF activeElement # 0 /\ s1.activeElement # activeElement
              THEN activeElement ELSE 0
  IN  last' = [op |-> op, id |-> id, cause |-> cause, read |-> read,
               blurred |-> lost,
               wasFocusedByTab |-> IF lost # 0 THEN focusedByTab[lost] ELSE FALSE]

\* Process start: nothing mounted, nothing attached, no key pressed.
Start(medium16px) ==
  /\ isListening = FALSE
  /\ tabPressed = FALSE
  /\ listeners = 0
  /\ sizeMedium16px = medium16px
  /\ props = [i \in Buttons |-> defaultProps]
  /\ node = [i \in Buttons |-> FALSE]
  /\ focusedByTab = [i \in Buttons |-> FALSE]
  /\ activeElement = 0
  /\ pending = <<>>
  /\ rendered = [i \in Buttons |-> NotRendered]
  /\ last = [op |-> "init", id |-> 0, cause |-> "", read |-> FALSE,
             blurred |-> 0, wasFocusedByTab |-> FALSE]
  /\ setInTurn = FALSE
  /\ consumed = 0

Init == Start(FALSE)

InitRender == \E medium16px \in BOOLEAN : Start(medium16px)

\* Application code mounts instance i with configuration cfg.  Instances are
\* numbered in the order in which they are mounted.
MountWith(i, cfg) ==
  /\ ~node[i]
  /\ \A j \in Buttons : j < i => node[j]
  /\ Len(pending) < MaxPending
  /\ LET s1 == mount(State, i, cfg)
     IN  /\ Becomes(s1)
         /\ Record("mount", i, "mount", FALSE, s1)
  /\ setInTurn' = (cfg.autoFocus \/ setInTurn)
  /\ consumed' = IF cfg.autoFocus THEN 0 ELSE consumed

Mount(i) == \E cfg \in FocusConfigs : MountWith(i, cfg)

\* Application code calls focus() of instance i.  A call that changes nothing
\* (no node yet, or the control already holds focus) is a stuttering step.
FocusCall(i) ==
  /\ Len(pending) < MaxPending
  /\ LET s1 == focus(State, i, "call")
     IN  /\ s1 # State
         /\ Becomes(s1)
         /\ Record("focus", i, "call", FALSE, s1)
  /\ UNCHANGED <<setInTurn, consumed>>

\* Application code calls blur() of instance i.  A call that changes nothing
\* (no node yet, or the control does not hold focus) is a stuttering step.
BlurCall(i) ==
  /\ LET s1 == blur(State, i)
     IN  /\ s1 # State
         /\ Becomes(s1)
         /\ Record("blur", i, "call", FALSE, s1)
  /\ UNCHANGED <<setInTurn, consumed>>

\* Input focus moves to button t, or (t = 0) to something that is no button.
moveFocus(s, t, cause) ==
  IF t = 0 THEN domBlurActive(s) ELSE domFocus(s, t, cause)

\* A keydown event that moves focus to no button.
KeyDown(keyCode) ==
  /\ pending = <<>>
  /\ LET s1 == dispatchKeydown(State, keyCode)
     IN  /\ Becomes(s1)
         /\ Record("keydown", 0, "", FALSE, s1)
  /\ setInTurn' = (listeners > 0 /\ keyCode = KEYCODE_TAB)
  /\ consumed' = IF listeners > 0 /\ keyCode = KEYCODE_TAB THEN 0 ELSE consumed

\* A keyboard-driven focus transition: the Tab keydown and the focus change
\* it causes, in one turn, the keydown listener before the focus handler or
\* after it.
tabCause(keydownFirst) ==
  IF keydownFirst THEN "tabKeydownFirst" ELSE "tabFocusFirst"

tabTransition(s, t, keydownFirst) ==
  IF keydownFirst
  THEN moveFocus(dispatchKeydown(s, KEYCODE_TAB), t, tabCause(TRUE))
  ELSE dispatchKeydown(moveFocus(s, t, tabCause(FALSE)), KEYCODE_TAB)

TabTo(t) ==
  /\ pending = <<>>
  /\ t # activeElement
  /\ t # 0 => node[t]
  /\ \E keydownFirst \in BOOLEAN :
       LET s1 == tabTransition(State, t, keydownFirst)
       IN  /\ Becomes(s1)
           /\ Record("tabTo", t, tabCause(keydownFirst), FALSE, s1)
  /\ setInTurn' = (listeners > 0)
  /\ consumed' = IF listeners > 0 THEN 0 ELSE consumed

\* A pointer-driven focus transition: no keydown belongs to it.
PointerFocus(t) ==
  /\ pending = <<>>
  /\ t # activeElement
  /\ t # 0 => node[t]
  /\ LET s1 == moveFocus(State, t, "pointer")
     IN  /\ Becomes(s1)
         /\ Record("pointer", t, "pointer", FALSE, s1)
  /\ setInTurn' = FALSE
  /\ UNCHANGED consumed

\* The nextTick queue runs its first callback.
Deferred ==
  /\ pending # <<>>
  /\ LET e == Head(pending)
         s1 == deferredCheck([State EXCEPT !.pending = Tail(@)], e.id)
     IN  /\ Becomes(s1)
         /\ Record("deferred", e.id, e.cause, tabPressed, s1)
  /\ consumed' = IF tabPressed /\ consumed < 2 THEN consumed + 1 ELSE consumed
  /\ UNCHANGED setInTurn

Next ==
  \/ \E i \in Buttons : Mount(i)
  \/ \E i \in Buttons : FocusCall(i)
  \/ \E i \in Buttons : BlurCall(i)
  \/ \E k \in KeyCodes : KeyDown(k)
  \/ \E t \in Buttons \cup {0} : TabTo(t)
  \/ \E t \in Buttons \cup {0} : PointerFocus(t)
  \/ Deferred

Spec == Init /\ [][Next]_vars

\* One instance, mounted with any render configuration.
MountRender(i) ==
  /\ \A j \in Buttons : ~node[j]
  /\ \E cfg \in RenderConfigs : MountWith(i, cfg)

NextRender ==
  \/ \E i \in Buttons : MountRender(i)
  \/ \E i \in Buttons : FocusCall(i)
  \/ \E k \in KeyCodes : KeyDown(k)
  \/ \E t \in Buttons \cup {0} : TabTo(t)
  \/ \E i \in Buttons : BlurCall(i)
  \/ Deferred

RenderSpec == InitRender /\ [][NextRender]_vars

\* ============================================================= claims

TabCauses == {"tabKeydownFirst", "tabFocusFirst"}

\* How often class name c occurs in a className.
Occurrences(cls, c) == Cardinality({j \in 1..Len(cls) : cls[j] = c})

\* Bit k (1: top-left, 2: top-right, 3: bottom-right, 4: bottom-left) of a
\* corner mask, by division.
RECURSIVE Pow2(_)
Pow2(k) == IF k = 0 THEN 1 ELSE 2 * Pow2(k - 1)
BitSet(mask, k) == (mask \div Pow2(k - 1)) % 2 = 1

\* C1: focusedByTab of an instance is true only while that instance's
\* control holds input focus.
C1_FocusedByTabOnlyWhileFocused ==
  \A i \in Buttons : focusedByTab[i] => activeElement = i

\* C2: a focus event not caused by a Tab keydown (pointer or programmatic
\* focus, the flag not having been set in the turn of that focus event) leaves
\* the button's focusedByTab false once its deferred check has run.
C2_NonTabFocusLeavesFalse ==
  (last.op = "deferred" /\ last.cause \in {"pointer", "call"} /\ ~setInTurn)
    => ~focusedByTab[last.id]

\* C3: a keyboard-driven focus transition onto a mounted button that is
\* neither disabled nor focus-suppressed leaves its deferred check pending
\* with TabPressedFlag true, in either order of keydown listener and focus
\* handler; the check then reads the flag as true, sets focusedByTab and
\* clears the flag.
C3_KeyboardFocusSetsFocusedByTab ==
  /\ (last.op = "tabTo" /\ last.id # 0
        /\ ~props[last.id].disabled /\ ~props[last.id].disableFocus)
       => /\ tabPressed
          /\ pending = <<[id |-> last.id, cause |-> last.cause]>>
  /\ (last.op = "deferred" /\ last.cause \in TabCauses)
       => last.read /\ focusedByTab[last.id] /\ ~tabPressed

\* Witness: a focus-first keyboard transition whose deferred check has run.
C3_Witness ==
  /\ last.op = "deferred" /\ last.cause = "tabFocusFirst"
  /\ last.read /\ focusedByTab[last.id] /\ ~tabPressed
  /\ activeElement = last.id

\* C4: an instance mounted with autoFocus holds input focus right after the
\* mount and, once its deferred check has run, focusedByTab is true.
C4_AutoFocusFocusedByTab ==
  /\ (last.op = "mount" /\ props[last.id].autoFocus) => activeElement = last.id
  /\ (last.op = "deferred" /\ last.cause = "mount") => focusedByTab[last.id]

\* C5: the keydown listener is attached exactly once: none before the first
\* mount, exactly one after any number of mounts, and isListening says so.
C5_ListenerRegisteredOnce ==
  /\ listeners = IF \E i \in Buttons : node[i] THEN 1 ELSE 0
  /\ isListening = (listeners = 1)

\* Witness: a second mount has run and one listener is attached.
C5_Witness ==
  /\ Cardinality({i \in Buttons : node[i]}) >= 2
  /\ last.op = "mount"
  /\ listeners = 1

\* C6: right after a blur event is handled the instance's focusedByTab is
\* false, whatever it was before and whatever the configuration.
C6_BlurClearsFocusedByTab ==
  last.blurred # 0 => ~focusedByTab[last.blurred]

\* Witness: blur() was called on an instance whose focusedByTab was true.
C6_Witness ==
  /\ last.op = "blur" /\ last.blurred = last.id
  /\ last.wasFocusedByTab
  /\ ~focusedByTab[last.id]

\* C7 as stated: for every use, link included, the rendered control carries
\* the disabled class iff disabled or loading, exactly once, and the disabled
\* attribute iff disabled or loading.
C7_DisabledClassAndAttrEveryUse ==
  \A i \in Buttons : node[i] =>
    LET p == props[i]
        r == rendered[i]
    IN  /\ Occurrences(r.className, "disabled")
             = IF p.disabled \/ p.loading THEN 1 ELSE 0
        /\ r.disabled = (p.disabled \/ p.loading)

\* C7 amended: the disabled attribute is set iff disabled or loading for
\* every use; the disabled class is carried (once) iff disabled or loading
\* when use is not link, and iff disabled alone when use is link.
C7_DisabledClassAndAttr ==
  \A i \in Buttons : node[i] =>
    LET p == props[i]
        r == rendered[i]
    IN  /\ Occurrences(r.className, "disabled")
             = IF p.disabled \/ (p.loading /\ p.use # "link") THEN 1 ELSE 0
        /\ r.disabled = (p.disabled \/ p.loading)

\* Witness: a mounted link button with loading alone: attribute set, class absent.
C7_Witness ==
  \E i \in Buttons :
    /\ node[i]
    /\ props[i].use = "link" /\ props[i].loading /\ ~props[i].disabled
    /\ rendered[i].disabled
    /\ Occurrences(rendered[i].className, "disabled") = 0

\* C8: with use = link none of loading indicator, arrow, error marker and
\* warning marker is rendered; otherwise the loading indicator iff loading,
\* the arrow iff arrow, the error marker iff error and the warning marker iff
\* warning and not error.
C8_Decorations ==
  \A i \in Buttons : node[i] =>
    LET p == props[i]
        r == rendered[i]
    IN  IF p.use = "link"
        THEN r.loading = <<>> /\ r.arrow = <<>> /\ r.error = <<>>
        ELSE /\ (r.loading # <<>>) = p.loading
             /\ (r.arrow # <<>>) = p.arrow
             /\ ("error" \in {r.error[j] : j \in 1..Len(r.error)}) = p.error
             /\ ("warning" \in {r.error[j] : j \in 1..Len(r.error)})
                  = (p.warning /\ ~p.error)
             /\ Len(r.error) <= 1

\* Witness: a mounted non-link button with error, warning, loading and arrow set.
C8_Witness ==
  \E i \in Buttons :
    /\ node[i]
    /\ props[i].use # "link" /\ props[i].error /\ props[i].warning
    /\ props[i].loading /\ props[i].arrow
    /\ rendered[i].error = <<"error">>
    /\ rendered[i].loading # <<>> /\ rendered[i].arrow # <<>>

\* C9: for every corner mask 0..15 each border-radius component is "0"
\* exactly when the corresponding bit of the mask is set and "2px"
\* otherwise; an absent mask gives four rounded corners.
C9_BorderRadius ==
  \A i \in Buttons : node[i] =>
    LET p == props[i]
        r == rendered[i]
    IN  /\ Len(r.borderRadius) = 4
        /\ \A k \in 1..4 :
             r.borderRadius[k] =
               IF p.corners # <<>> /\ BitSet(p.corners[1], k) THEN "0" ELSE "2px"

\* Witness: a mounted button with the top-left and bottom-right bits set.
C9_Witness ==
  \E i \in Buttons :
    /\ node[i]
    /\ props[i].corners = <<TOP_LEFT + BOTTOM_RIGHT>>
    /\ rendered[i].borderRadius = <<"0", "2px", "0", "2px">>

\* C10: between two settings of TabPressedFlag to true at most one deferred
\* check finds it true and sets focusedByTab.
C10_OnePressOneConsumer ==
  /\ consumed <= 1
  /\ (last.op = "deferred" /\ last.read) => ~tabPressed

\* Witness: one check consumed the flag while another instance's check is pending.
C10_Witness ==
  /\ last.op = "deferred" /\ last.read
  /\ consumed = 1
  /\ pending # <<>> /\ Head(pending).id # last.id
  /\ ~tabPressed

====
